---- MODULE Spec2Model ----
\* A model of the UROAuth client (src/UROAuth.js): the two stored token pairs,
\* the promises returned by getRequestToken, getAccessToken, multipleQueries and
\* query, the requests they hand to the OAuth transport, and the transport's
\* callbacks.
EXTENDS Integers, Sequences, FiniteSets, TLC

\* ------------------------------------------------------------------ bounds
\* At most MaxCalls operations are invoked on one client.
MaxCalls == 2

\* ------------------------------------------------------------ JS values
\* JavaScript's undefined: the value of a property that was never assigned.
Undef == "undefined"

\* A Token object {token, secret}; the constructor's {} reads as Undef in both.
Token(t, s) == [token |-> t, secret |-> s]
EmptyToken == Token(Undef, Undef)

\* Values a promise settles with, tagged by their JavaScript type.
VUndef == [t |-> "undefined"]
VToken(p) == [t |-> "Token", token |-> p.token, secret |-> p.secret]
VError(name) == [t |-> "Error", name |-> name]

\* JSON documents the API can answer with.
CallNames == {"urc.getCharacters", "urc.getClans"}
\* The same calls as proxyClient names them: group urc, these methods.
CallGroupMethods == {"getClans"}
\* What the API answers for each call.
StubResult(name) == IF name = "urc.getCharacters" THEN "characters" ELSE "clans"
JNull == [t |-> "null"]
JArray == [t |-> "array"]
JObject(m) == [t |-> "object", m |-> m]
JObjects == {JObject([n \in K |-> StubResult(n)]) : K \in SUBSET CallNames}
JSONValues == {JNull, JArray} \cup JObjects

\* The endpoints.
REQUEST_URL == "https://www.urban-rivals.com/api/auth/request_token.php"
ACCESS_URL == "https://www.urban-rivals.com/api/auth/access_token.php"
API_URL == "https://www.urban-rivals.com/api"
AUTHORIZE_URL == API_URL \o "/auth/authorize.php"

VARIABLES
  requestToken,   \* this.requestToken
  accessToken,    \* this.accessToken
  calls,          \* the operations invoked so far, each with its promise
  sent,           \* the requests handed to the transport, in order
  verifier,       \* the verifier the user's approval produced (Undef: none yet)
  proxyTarget,    \* the own properties of the objects behind proxyClient
  lastDelivered   \* history: the call whose callback ran last (0: none yet)

vars == <<requestToken, accessToken, calls, sent, verifier, proxyTarget, lastDelivered>>

\* this.token: read by getAccessToken, assigned nowhere in the class.
token == VUndef

\* ------------------------------------------------------------ inputs
\* A request token the caller passes to getAccessToken: nothing (the default
\* parameter), a Token object, or an object that has a requestToken property.
ExternalToken == Token("T2", "S2")
NoArgument == [t |-> "default"]
TokenArgument(p) == [t |-> "Token", token |-> p.token, secret |-> p.secret]
HolderArgument(p) == [t |-> "holder", requestToken |-> p]
Overrides == {NoArgument, TokenArgument(ExternalToken), HolderArgument(ExternalToken)}

\* Query objects passed to multipleQueries; an omitted property is Undef.
Params == "{characterID:223}"
Filter == "[name]"
QueryObject(c, p, cf, if) == [call |-> c, params |-> p, contextFilter |-> cf, itemsFilter |-> if]
Characters == QueryObject("urc.getCharacters", Undef, Undef, Undef)
Clans == QueryObject("urc.getClans", Params, Filter, Undef)
Batches == {<<>>, <<Characters>>, <<Characters, Clans>>, <<Clans, Characters>>}

\* ------------------------------------------------------ pure functions
\* A slip in the destructuring: no default given.
Default_None(v, d) == v

\* The destructuring defaults of multipleQueries' map callback.
Default(v, d) == IF v = Undef THEN d ELSE v

\* A slip in mapping the queries: only the first one is kept.
queriesToDo_FirstOnly(queries) ==
  [i \in 1..(IF Len(queries) = 0 THEN 0 ELSE 1) |->
     [call |-> queries[i].call,
      params |-> Default(queries[i].params, "{}"),
      contextFilter |-> Default(queries[i].contextFilter, "[]"),
      itemsFilter |-> Default(queries[i].itemsFilter, "[]")]]

queriesToDo(queries) ==
  [i \in 1..Len(queries) |->
     [call |-> queries[i].call,
      params |-> Default(queries[i].params, "{}"),
      contextFilter |-> Default(queries[i].contextFilter, "[]"),
      itemsFilter |-> Default(queries[i].itemsFilter, "[]")]]

\* JSON.stringify of an array of objects: the elements in order, each without
\* the properties whose value is undefined.
JSONstringify(arr) ==
  [wf |-> TRUE,
   doc |-> [t |-> "array",
            elems |-> [i \in 1..Len(arr) |->
                         [k \in {k \in DOMAIN arr[i] : arr[i][k] # Undef} |-> arr[i][k]]]]]

\* JSON.parse: the document of a well-formed text, a SyntaxError otherwise.
JSONparse(text) ==
  IF text.wf THEN [thrown |-> FALSE, value |-> text.doc]
             ELSE [thrown |-> TRUE, value |-> VError("SyntaxError")]

\* object[call] on a parsed response: the member, undefined when there is none,
\* a TypeError on null.
Member(v, call) ==
  IF v.t = "null" THEN [thrown |-> TRUE, value |-> VError("TypeError")]
  ELSE IF v.t = "object" /\ call \in DOMAIN v.m
       THEN [thrown |-> FALSE, value |-> [t |-> "QueryResult", r |-> v.m[call]]]
       ELSE [thrown |-> FALSE, value |-> VUndef]

\* ------------------------------------------------------------ the API
\* What the API answers to a whole batch: one member per call name of the
\* request.
ServerReply(body) ==
  LET elems == body.request.doc.elems
      names == {elems[i]["call"] : i \in {j \in DOMAIN elems : "call" \in DOMAIN elems[j]}}
  IN [wf |-> TRUE, doc |-> JObject([n \in names |-> StubResult(n)])]

\* Response bodies of the API endpoint: any JSON document, or text that is not JSON.
Bodies == {[wf |-> TRUE, doc |-> d] : d \in JSONValues} \cup {[wf |-> FALSE, doc |-> JNull]}

\* Token pairs a token endpoint's response is parsed into: a field the
\* response lacks is undefined.
TokenResponses == {Token("T1", "S1"), Token("T2", "S2"), Token("T1", Undef), EmptyToken}

TransportError == VError("TransportError")

\* ------------------------------------------------------------ promises
NoResponse == [t |-> "none"]
ErrorResponse == [t |-> "error"]
TokenResponse(p) == [t |-> "tokens", token |-> p.token, secret |-> p.secret]
BodyResponse(b) == [t |-> "body", wf |-> b.wf, doc |-> b.doc]

NoBody == [wf |-> FALSE, doc |-> JNull]

\* A request handed to the transport: the endpoint, the token pair it is signed
\* with, the oauth_verifier it carries and its body.
Request(url, t, s, v, body) ==
  [url |-> url, token |-> t, secret |-> s, verifier |-> v, body |-> body]

\* A call of an operation: its arguments, the request it made, and its promise.
Call(kind, arg, req) ==
  [kind |-> kind, arg |-> arg, req |-> req,
   status |-> "pending", value |-> VUndef, resp |-> NoResponse]

Settle(c, status, value, resp) ==
  [c EXCEPT !.status = status, !.value = value, !.resp = resp]

Pending(kind) == {i \in DOMAIN calls : calls[i].kind = kind /\ calls[i].status = "pending"}

\* A slip in handing the request to the transport: it is sent a second time.
Invoke_Twice(c) ==
  /\ Len(calls) < MaxCalls
  /\ calls' = Append(calls, c)
  /\ sent' = Append(Append(sent, c.req), c.req)

\* The call's request leaves through the transport.
Invoke(c) ==
  /\ Len(calls) < MaxCalls
  /\ calls' = Append(calls, c)
  /\ sent' = Append(sent, c.req)

\* ---------------------------------------------------------- operations
Init ==
  /\ requestToken = EmptyToken
  /\ accessToken = EmptyToken
  /\ calls = <<>>
  /\ sent = <<>>
  /\ verifier = Undef
  /\ proxyTarget = {}
  /\ lastDelivered = 0

\* The player approves the request token on the authorize page: the verifier
\* reaches the caller through the callback URL.
UserApproves ==
  /\ requestToken.token # Undef
  /\ verifier = Undef
  /\ verifier' = "V123"
  /\ UNCHANGED <<requestToken, accessToken, calls, sent, proxyTarget, lastDelivered>>

\* getRequestToken(): getOAuthRequestToken signs with no token.
getRequestToken ==
  /\ Invoke(Call("getRequestToken", NoArgument,
                 Request(REQUEST_URL, Undef, Undef, Undef, NoBody)))
  /\ UNCHANGED <<requestToken, accessToken, verifier, proxyTarget, lastDelivered>>

\* A slip in building the Token object: the token copied into both fields.
tokenObject_TokenTwice(tok, token_secret) == Token(tok, tok)

\* The Token object the callback builds from what getOAuthRequestToken parsed.
tokenObject(tok, token_secret) == Token(tok, token_secret)

\* A slip in the callback: a request pair already stored is kept.
getRequestTokenCallback_KeepFirst(i, err, tok, token_secret) ==
  IF err
  THEN /\ calls' = [calls EXCEPT ![i] = Settle(@, "rejected", TransportError, ErrorResponse)]
       /\ lastDelivered' = i
     /\ UNCHANGED <<requestToken, accessToken, sent, verifier, proxyTarget>>
  ELSE /\ requestToken' = IF requestToken = EmptyToken THEN tokenObject(tok, token_secret)
                          ELSE requestToken
       /\ calls' = [calls EXCEPT ![i] =
                      Settle(@, "resolved", VToken(tokenObject(tok, token_secret)),
                             TokenResponse(Token(tok, token_secret)))]
       /\ lastDelivered' = i
     /\ UNCHANGED <<accessToken, sent, verifier, proxyTarget>>

\* The callback getRequestToken gave to getOAuthRequestToken.
getRequestTokenCallback(i, err, tok, token_secret) ==
  IF err
  THEN /\ calls' = [calls EXCEPT ![i] = Settle(@, "rejected", TransportError, ErrorResponse)]
       /\ lastDelivered' = i
     /\ UNCHANGED <<requestToken, accessToken, sent, verifier, proxyTarget>>
  ELSE /\ requestToken' = tokenObject(tok, token_secret)
       /\ calls' = [calls EXCEPT ![i] =
                      Settle(@, "resolved", VToken(tokenObject(tok, token_secret)),
                             TokenResponse(Token(tok, token_secret)))]
       /\ lastDelivered' = i
     /\ UNCHANGED <<accessToken, sent, verifier, proxyTarget>>

RequestTokenResponse ==
  \E i \in Pending("getRequestToken") :
    \/ getRequestTokenCallback(i, TRUE, Undef, Undef)
    \/ \E p \in TokenResponses : getRequestTokenCallback(i, FALSE, p.token, p.secret)

\* A slip in the default parameter: the stored pair is used whatever is passed.
ExchangedToken_ArgumentIgnored(arg) == requestToken

\* The request token getAccessToken exchanges: the argument, this.requestToken
\* by default, and the requestToken property of an argument that has one.
ExchangedToken(arg) ==
  IF arg.t = "default" THEN requestToken
  ELSE IF arg.t = "holder" THEN arg.requestToken
  ELSE Token(arg.token, arg.secret)

\* A slip in unwrapping the argument: the field assigned, not the parameter.
thisRequestToken_Assigned(arg) == ExchangedToken(arg)

\* this.requestToken after getAccessToken has unwrapped its argument: the
\* parameter requestToken is reassigned, the field is not.
thisRequestToken(arg) == requestToken

\* getAccessToken(requestToken): getOAuthAccessToken(token, secret, callback).
getAccessToken(arg) ==
  /\ Invoke(Call("getAccessToken", arg,
                 Request(ACCESS_URL, ExchangedToken(arg).token, ExchangedToken(arg).secret,
                         Undef, NoBody)))
  /\ requestToken' = thisRequestToken(arg)
  /\ UNCHANGED <<accessToken, verifier, proxyTarget, lastDelivered>>

\* The Token object the callback stores as this.accessToken.
newAccessToken(accessTok, accessSecret) == Token(accessTok, accessSecret)

\* The callback getAccessToken gave to getOAuthAccessToken.
getAccessTokenCallback(i, err, accessTok, accessSecret) ==
  IF err
  THEN /\ calls' = [calls EXCEPT ![i] = Settle(@, "rejected", TransportError, ErrorResponse)]
       /\ lastDelivered' = i
     /\ UNCHANGED <<requestToken, accessToken, sent, verifier, proxyTarget>>
  ELSE /\ accessToken' = newAccessToken(accessTok, accessSecret)
       /\ calls' = [calls EXCEPT ![i] =
                      Settle(@, "resolved", token,
                             TokenResponse(Token(accessTok, accessSecret)))]
       /\ lastDelivered' = i
     /\ UNCHANGED <<requestToken, sent, verifier, proxyTarget>>

AccessTokenResponse ==
  \E i \in Pending("getAccessToken") :
    \/ getAccessTokenCallback(i, TRUE, Undef, Undef)
    \/ \E p \in TokenResponses : getAccessTokenCallback(i, FALSE, p.token, p.secret)

\* The request multipleQueries posts: signed with this.accessToken, the body's
\* request field holding the JSON of the queries.
jsonEncodedQuery(queries) == JSONstringify(queriesToDo(queries))

\* A slip in signing the post: the request pair in place of the access pair.
PostRequest_RequestPair(queries) ==
  Request(API_URL, requestToken.token, requestToken.secret, Undef,
          [request |-> jsonEncodedQuery(queries)])

PostRequest(queries) ==
  Request(API_URL, accessToken.token, accessToken.secret, Undef,
          [request |-> jsonEncodedQuery(queries)])

\* multipleQueries(...queries)
multipleQueries(queries) ==
  /\ Invoke(Call("multipleQueries", [t |-> "queries", queries |-> queries],
                 PostRequest(queries)))
  /\ UNCHANGED <<requestToken, accessToken, verifier, proxyTarget, lastDelivered>>

\* The body of query, run for query itself or through a function the proxy
\* bound: one multipleQueries call, awaited.
queryBody(origin, call, params, itemsFilter, contextFilter) ==
  LET q == QueryObject(call, Default(params, "{}"),
                       Default(contextFilter, "[]"), Default(itemsFilter, "[]")) IN
  /\ Invoke(Call(origin.kind,
                 [t |-> "query", call |-> call, queries |-> <<q>>, origin |-> origin],
                 PostRequest(<<q>>)))
  /\ UNCHANGED <<requestToken, accessToken, verifier, proxyTarget, lastDelivered>>

\* query(call, params, filters)
query(call, params, itemsFilter, contextFilter) ==
  queryBody([kind |-> "query"], call, params, itemsFilter, contextFilter)

\* A slip in the template string: the name before the group.
boundCall_Swapped(callGroup, callName) == callName \o "." \o callGroup

\* The call name the proxy binds: `${callGroup}.${callName}`.
boundCall(callGroup, callName) == callGroup \o "." \o callName

\* proxyClient.callGroup.callName(params, filters): query bound to the name.
proxyClient(callGroup, callName, params, itemsFilter, contextFilter) ==
  queryBody([kind |-> "proxyClient", callGroup |-> callGroup, callName |-> callName],
            boundCall(callGroup, callName), params, itemsFilter, contextFilter)

\* A slip in a trap: the write let through.
setTrap_Allows == TRUE

\* The set, defineProperty and deleteProperty traps of both proxies: () => false.
setTrap == FALSE

\* proxyClient.key = value, or the same on proxyClient.callGroup: the trap
\* decides whether the object behind the proxy gets the property.
proxySet(key) ==
  /\ proxyTarget' = IF setTrap THEN proxyTarget \cup {key} ELSE proxyTarget
  /\ UNCHANGED <<requestToken, accessToken, calls, sent, verifier, lastDelivered>>

\* application/x-www-form-urlencoded serialization of one character.
EncodeChar(ch) ==
  IF ch = ":" THEN "%3A"
  ELSE IF ch = "/" THEN "%2F"
  ELSE IF ch = "?" THEN "%3F"
  ELSE IF ch = "&" THEN "%26"
  ELSE IF ch = "=" THEN "%3D"
  ELSE IF ch = "%" THEN "%25"
  ELSE IF ch = "+" THEN "%2B"
  ELSE IF ch = " " THEN "+"
  ELSE ch

\* The serialization of a string, from its i-th character on.
RECURSIVE Serialize(_, _)
Serialize(str, i) ==
  IF i > Len(str) THEN "" ELSE EncodeChar(SubSeq(str, i, i)) \o Serialize(str, i + 1)

\* String(v), as searchParams.set converts its value.
StringOf(v) == IF v = Undef THEN "undefined" ELSE v

\* A slip in the test of the callback: oauth_callback always set.
CallbackGiven_Always(callbackUrl) == TRUE

\* if (callbackUrl): a non-empty string is truthy.
CallbackGiven(callbackUrl) == callbackUrl # ""

\* authorizeUrl.searchParams after getAuthorizeUrl has set its parameters.
searchParams(callbackUrl) ==
  <<[name |-> "oauth_token", value |-> StringOf(requestToken.token)]>>
  \o (IF CallbackGiven(callbackUrl)
      THEN <<[name |-> "oauth_callback", value |-> StringOf(callbackUrl)]>>
      ELSE <<>>)

\* authorizeUrl.toString(): the URL, "?", and the parameters joined by "&".
RECURSIVE QueryString(_, _)
QueryString(params, i) ==
  IF i > Len(params) THEN ""
  ELSE (IF i > 1 THEN "&" ELSE "")
       \o Serialize(params[i].name, 1) \o "=" \o Serialize(params[i].value, 1)
       \o QueryString(params, i + 1)

URLtoString(base, params) ==
  IF params = <<>> THEN base ELSE base \o "?" \o QueryString(params, 1)

\* Callback URLs passed to getAuthorizeUrl; "" is the default.
CallbackUrls == {"", "https://cb/"}

NoRequest == Request("none", Undef, Undef, Undef, NoBody)

\* getAuthorizeUrl(callbackUrl): returns the URL at once; nothing is sent.
getAuthorizeUrl(callbackUrl) ==
  /\ Len(calls) < MaxCalls
  /\ calls' = Append(calls,
                [Call("getAuthorizeUrl", [t |-> "callback", callbackUrl |-> callbackUrl],
                      NoRequest)
                   EXCEPT !.status = "returned",
                          !.value = [t |-> "string",
                                     s |-> URLtoString(AUTHORIZE_URL, searchParams(callbackUrl))]])
  /\ UNCHANGED <<requestToken, accessToken, sent, verifier, proxyTarget, lastDelivered>>

\* A slip in the post callback: the response parsed before err is looked at.
PostOutcome_ParseFirst(err, response) ==
  IF JSONparse(response).thrown
  THEN [status |-> "threw", value |-> JSONparse(response).value]
  ELSE IF err THEN [status |-> "rejected", value |-> TransportError]
       ELSE [status |-> "resolved", value |-> JSONparse(response).value]

\* What the promise of multipleQueries does when post calls back: reject(err),
\* resolve(JSON.parse(response)), or neither when JSON.parse throws out of the
\* callback.
PostOutcome(err, response) ==
  IF err THEN [status |-> "rejected", value |-> TransportError]
  ELSE IF JSONparse(response).thrown
       THEN [status |-> "threw", value |-> JSONparse(response).value]
       ELSE [status |-> "resolved", value |-> JSONparse(response).value]

\* What query's promise does with the outcome of the multipleQueries it awaits.
QueryOutcome(inner, call) ==
  IF inner.status = "resolved"
  THEN IF Member(inner.value, call).thrown
       THEN [status |-> "rejected", value |-> Member(inner.value, call).value]
       ELSE [status |-> "resolved", value |-> Member(inner.value, call).value]
  ELSE inner

\* The callback multipleQueries gave to post.
postCallback(i, err, response) ==
  LET inner == PostOutcome(err, response)
      outer == IF calls[i].kind \in {"query", "proxyClient"} THEN QueryOutcome(inner, calls[i].arg.call)
               ELSE inner
  IN /\ calls' = [calls EXCEPT ![i] =
                    Settle(@, outer.status, outer.value,
                           IF err THEN ErrorResponse ELSE BodyResponse(response))]
     /\ lastDelivered' = i
     /\ UNCHANGED <<requestToken, accessToken, sent, verifier, proxyTarget>>

PostResponse ==
  \E i \in Pending("multipleQueries") \cup Pending("query") \cup Pending("proxyClient") :
    \/ postCallback(i, TRUE, NoBody)
    \/ \E b \in Bodies : postCallback(i, FALSE, b)

Next ==
  \/ UserApproves
  \/ getRequestToken
  \/ RequestTokenResponse
  \/ \E arg \in Overrides : getAccessToken(arg)
  \/ AccessTokenResponse
  \/ \E queries \in Batches : multipleQueries(queries)
  \/ \E call \in CallNames : query(call, Undef, Undef, Undef)
  \/ \E callName \in CallGroupMethods : proxyClient("urc", callName, Undef, Undef, Undef)
  \/ \E key \in {"characters"} : proxySet(key)
  \/ \E callbackUrl \in CallbackUrls : getAuthorizeUrl(callbackUrl)
  \/ PostResponse

Spec == Init /\ [][Next]_vars

\* The client after a completed handshake (getRequestToken answered T1/S1, the
\* user's approval, getAccessToken answered T2/S2), observed from there on: the
\* records of calls and requests start empty at this point.
InitAuthenticated ==
  /\ requestToken = Token("T1", "S1")
  /\ accessToken = Token("T2", "S2")
  /\ calls = <<>>
  /\ sent = <<>>
  /\ verifier = "V123"
  /\ proxyTarget = {}
  /\ lastDelivered = 0

\* The authenticated client used for batches only: multipleQueries calls and
\* the transport's callbacks, in any order.
NextQueries ==
  \/ \E queries \in Batches : multipleQueries(queries)
  \/ PostResponse

SpecQueries == InitAuthenticated /\ [][NextQueries]_vars

\* The client after a first getRequestToken was answered T1/S1, observed from
\* there on: the records of calls and requests start empty at this point.
InitRequested ==
  /\ requestToken = Token("T1", "S1")
  /\ accessToken = EmptyToken
  /\ calls = <<>>
  /\ sent = <<>>
  /\ verifier = Undef
  /\ proxyTarget = {}
  /\ lastDelivered = 0

\* The handshake operations and their callbacks, in any order.
NextHandshake ==
  \/ UserApproves
  \/ getRequestToken
  \/ RequestTokenResponse
  \/ \E arg \in Overrides : getAccessToken(arg)
  \/ AccessTokenResponse

SpecHandshake == InitRequested /\ [][NextHandshake]_vars

\* ------------------------------------------------------------ token state
\* A pair is populated when both its fields are set, absent when neither is.
Populated(p) == p.token # Undef /\ p.secret # Undef

\* The token state the two stored pairs stand for.
TokenState ==
  IF Populated(accessToken) THEN "AccessTokenObtained"
  ELSE IF Populated(requestToken) THEN "RequestTokenObtained"
  ELSE "Unauthenticated"

\* Call i's transport callback runs in this step.
Delivered(i) == calls[i].status = "pending" /\ calls'[i].resp # NoResponse

\* This step invokes an operation: the new call is the last one.
Invoked(kinds) == Len(calls') = Len(calls) + 1 /\ calls'[Len(calls')].kind \in kinds

C2_AccessTokenStoredAndUsed ==
  [][/\ \A i \in DOMAIN calls :
          (calls[i].kind = "getAccessToken" /\ Delivered(i) /\ calls'[i].resp.t = "tokens")
          => /\ accessToken' = Token(calls'[i].resp.token, calls'[i].resp.secret)
             /\ Populated(calls'[i].resp) => TokenState' = "AccessTokenObtained"
     /\ Invoked({"multipleQueries", "query"})
          => /\ calls'[Len(calls')].req.token = accessToken.token
             /\ calls'[Len(calls')].req.secret = accessToken.secret
             /\ sent'[Len(sent')] = calls'[Len(calls')].req
             /\ accessToken' = accessToken]_vars

C2_Witness ==
  \E i, j \in DOMAIN calls :
    /\ i < j
    /\ calls[i].kind = "getAccessToken"
    /\ calls[i].resp = TokenResponse(Token("T1", "S1"))
    /\ calls[j].kind = "multipleQueries"
    /\ calls[j].req.token = "T1" /\ calls[j].req.secret = "S1"
    /\ accessToken = Token("T1", "S1")
    /\ TokenState = "AccessTokenObtained"

\* C3: the value a successful getAccessToken resolves to is the access pair
\* the same call stored (stated for an exchange of a populated request pair
\* that the server answers with a token and a secret).
C3_ResolvesToStoredAccessPair ==
  [][\A i \in DOMAIN calls :
       (/\ calls[i].kind = "getAccessToken"
        /\ Populated(calls[i].req)
        /\ Delivered(i)
        /\ calls'[i].resp.t = "tokens"
        /\ Populated(calls'[i].resp))
       => /\ calls'[i].status = "resolved"
          /\ calls'[i].value = VToken(accessToken')]_vars

\* C4: every access-token exchange getAccessToken sends is signed with the
\* request pair it exchanges and carries the verifier of the user's approval
\* as oauth_verifier (stated for an exchange of a populated request pair).
C4_ExchangeCarriesVerifier ==
  [][(Invoked({"getAccessToken"}) /\ Populated(calls'[Len(calls')].req))
       => LET c == calls'[Len(calls')] IN
          /\ sent'[Len(sent')] = c.req
          /\ c.req.url = ACCESS_URL
          /\ Token(c.req.token, c.req.secret) = ExchangedToken(c.arg)
          /\ verifier # Undef => c.req.verifier = verifier]_vars

\* C5: multipleQueries and query invoked while no access pair is stored fail
\* with a not-authenticated error, and no batch request is sent to the API
\* before an access token has been obtained.
C5_NotAuthenticatedRejected ==
  /\ \A i \in DOMAIN calls :
       (/\ calls[i].kind \in {"multipleQueries", "query"}
        /\ ~Populated(calls[i].req))
       => /\ calls[i].status = "rejected"
          /\ calls[i].value = VError("NotAuthenticatedError")
  /\ \A k \in DOMAIN sent : sent[k].url = API_URL => Populated(sent[k])

\* C6: getAccessToken called with no argument while no request token has been
\* obtained fails, and AccessTokenObtained is entered only after a request
\* token was obtained or an external one was supplied.
C6_AccessOnlyAfterRequestToken ==
  /\ \A i \in DOMAIN calls :
       (/\ calls[i].kind = "getAccessToken"
        /\ calls[i].arg = NoArgument
        /\ ~Populated(calls[i].req))
       => calls[i].status # "resolved"
  /\ TokenState = "AccessTokenObtained"
       => \E i \in DOMAIN calls :
            \/ calls[i].kind = "getRequestToken" /\ calls[i].status = "resolved"
            \/ calls[i].kind = "getAccessToken" /\ calls[i].arg # NoArgument

\* C7: multipleQueries called with no queries is rejected as a precondition
\* failure and makes no network call (stated for a client that holds an
\* access pair).
C7_EmptyBatchRejected ==
  /\ \A i \in DOMAIN calls :
       (/\ calls[i].kind = "multipleQueries"
        /\ Populated(calls[i].req)
        /\ calls[i].arg.queries = <<>>)
       => /\ calls[i].status = "rejected"
          /\ calls[i].value = VError("PreconditionError")
  /\ \A k \in DOMAIN sent :
       (sent[k].url = API_URL /\ Populated(sent[k])) => sent[k].body.request.doc.elems # <<>>

\* C8: query(call) fails with a missing-result error whenever the well-formed
\* response object has no key equal to the call name, and returns exactly the
\* value under that key when it is present (stated for a client that holds
\* an access pair).
C8_MissingResultRejected ==
  \A i \in DOMAIN calls :
    (/\ calls[i].kind = "query"
     /\ Populated(calls[i].req)
     /\ calls[i].resp.t = "body"
     /\ calls[i].resp.wf
     /\ calls[i].resp.doc.t = "object")
    => IF calls[i].arg.call \in DOMAIN calls[i].resp.doc.m
       THEN /\ calls[i].status = "resolved"
            /\ calls[i].value =
                 [t |-> "QueryResult", r |-> calls[i].resp.doc.m[calls[i].arg.call]]
       ELSE /\ calls[i].status = "rejected"
            /\ calls[i].value = VError("MissingResultError")

\* C9: for a batch of calls with distinct names that the API answers,
\* multipleQueries resolves to a mapping with exactly the batch's call names
\* as keys, each mapped to the API's response for that call, and the mapping is
\* the same for every ordering of the calls.
BatchNames(queries) == {queries[k].call : k \in DOMAIN queries}

DistinctNames(queries) ==
  \A a, b \in DOMAIN queries : a # b => queries[a].call # queries[b].call

Answered(i) ==
  /\ calls[i].kind = "multipleQueries"
  /\ DistinctNames(calls[i].arg.queries)
  /\ calls[i].resp = BodyResponse(ServerReply(calls[i].req.body))

C9_MappingKeyedByCallName ==
  /\ \A i \in DOMAIN calls :
       Answered(i)
       => /\ calls[i].status = "resolved"
          /\ calls[i].value.t = "object"
          /\ DOMAIN calls[i].value.m = BatchNames(calls[i].arg.queries)
          /\ \A n \in DOMAIN calls[i].value.m : calls[i].value.m[n] = StubResult(n)
  /\ \A i, j \in DOMAIN calls :
       (/\ Answered(i) /\ Answered(j)
        /\ BatchNames(calls[i].arg.queries) = BatchNames(calls[j].arg.queries))
       => calls[i].value = calls[j].value

C9_Witness ==
  \E i, j \in DOMAIN calls :
    /\ Answered(i) /\ Answered(j)
    /\ calls[i].arg.queries = <<Characters, Clans>>
    /\ calls[j].arg.queries = <<Clans, Characters>>
    /\ calls[i].status = "resolved"
    /\ DOMAIN calls[i].value.m = {"urc.getCharacters", "urc.getClans"}
    /\ calls[j].value = calls[i].value

\* C10: when the API answers a batch with a body that is not valid JSON, or
\* with JSON whose top level is not an object, multipleQueries fails with a
\* protocol error instead of resolving with a value (stated for a client that
\* holds an access pair).
C10_MalformedBodyRejected ==
  \A i \in DOMAIN calls :
    (/\ calls[i].kind = "multipleQueries"
     /\ Populated(calls[i].req)
     /\ calls[i].resp.t = "body"
     /\ (~calls[i].resp.wf \/ calls[i].resp.doc.t # "object"))
    => /\ calls[i].status = "rejected"
       /\ calls[i].value = VError("ProtocolError")

\* C11: for each call of getRequestToken, getAccessToken or multipleQueries,
\* once the transport has delivered its callback (success, error or an
\* unparsable body) the returned promise is settled, resolved or rejected; no
\* call is left pending (multipleQueries: stated for a client that holds an
\* access pair).
C11_SettledOnceDelivered ==
  \A i \in DOMAIN calls :
    (/\ \/ calls[i].kind \in {"getRequestToken", "getAccessToken"}
        \/ calls[i].kind = "multipleQueries" /\ Populated(calls[i].req)
     /\ calls[i].resp # NoResponse)
    => calls[i].status \in {"resolved", "rejected"}

\* C12: when the transport reports a failure, getRequestToken, getAccessToken
\* and multipleQueries each reject with that error and leave both stored pairs
\* and the token state unchanged; multipleQueries rejects without parsing the
\* response body, whatever the body is.
C12_TransportFailureRejects ==
  [][\A i \in DOMAIN calls :
       (/\ calls[i].kind \in {"getRequestToken", "getAccessToken", "multipleQueries"}
        /\ Delivered(i)
        /\ calls'[i].resp = ErrorResponse)
       => /\ calls'[i].status = "rejected"
          /\ calls'[i].value = TransportError
          /\ requestToken' = requestToken
          /\ accessToken' = accessToken
          /\ TokenState' = TokenState]_vars

C12_Witness ==
  /\ TokenState = "AccessTokenObtained"
  /\ \E i \in DOMAIN calls :
       /\ calls[i].kind = "multipleQueries"
       /\ Populated(calls[i].req)
       /\ calls[i].resp = ErrorResponse
       /\ calls[i].status = "rejected"
       /\ calls[i].value = TransportError

\* C13: in every reachable state each of the two stored pairs is either
\* entirely absent or has both its token and its secret.
WholeOrAbsent(p) == (p.token = Undef) <=> (p.secret = Undef)

C13_PairsWholeOrAbsent ==
  WholeOrAbsent(requestToken) /\ WholeOrAbsent(accessToken)

\* C14: when a token response arrives without error but lacks oauth_token or
\* oauth_token_secret, getRequestToken (and likewise getAccessToken) fails with
\* a handshake error and neither updates the stored pair nor advances the
\* token state.
C14_MissingFieldsRejected ==
  [][\A i \in DOMAIN calls :
       (/\ calls[i].kind \in {"getRequestToken", "getAccessToken"}
        /\ Delivered(i)
        /\ calls'[i].resp.t = "tokens"
        /\ ~Populated(calls'[i].resp))
       => /\ calls'[i].status = "rejected"
          /\ calls'[i].value = VError("HandshakeError")
          /\ requestToken' = requestToken
          /\ accessToken' = accessToken
          /\ TokenState' = TokenState]_vars

\* C16: once an access pair has been stored, every later state still holds a
\* fully populated access pair, whatever operations succeed or fail afterwards.
C16_AccessPairStays ==
  [][Populated(accessToken) => Populated(accessToken')]_vars

\* C15: the stored request pair is changed by no step other than a successful
\* getRequestToken callback, the stored access pair by no step other than a
\* successful getAccessToken callback; invoking getAccessToken (with or
\* without an argument), multipleQueries, query, getAuthorizeUrl or a
\* proxyClient call, and a post callback, leave both pairs as they are.
C15_PairsWrittenByHandshakeOnly ==
  [][/\ requestToken' # requestToken
          => \E i \in DOMAIN calls :
               /\ calls[i].kind = "getRequestToken"
               /\ Delivered(i)
               /\ calls'[i].status = "resolved"
     /\ accessToken' # accessToken
          => \E i \in DOMAIN calls :
               /\ calls[i].kind = "getAccessToken"
               /\ Delivered(i)
               /\ calls'[i].status = "resolved"
     /\ Invoked({"getAccessToken", "multipleQueries", "query", "getAuthorizeUrl",
                 "proxyClient"})
          => requestToken' = requestToken /\ accessToken' = accessToken
     /\ (\E i \in DOMAIN calls :
           calls[i].kind \in {"getAccessToken", "multipleQueries", "query", "proxyClient"}
           /\ Delivered(i))
          => requestToken' = requestToken]_vars

C15_Witness ==
  /\ requestToken = EmptyToken
  /\ accessToken = Token("T1", "S1")
  /\ \E i, j \in DOMAIN calls :
       /\ calls[i].kind = "getAccessToken"
       /\ calls[i].arg = HolderArgument(ExternalToken)
       /\ calls[i].status = "resolved"
       /\ calls[j].kind = "proxyClient"
       /\ calls[j].status = "resolved"

\* C17: a getRequestToken that completes while the state is
\* AccessTokenObtained is not accepted and does not replace the stored request
\* pair.
C17_NotAcceptedAfterAccess ==
  [][\A i \in DOMAIN calls :
       (/\ calls[i].kind = "getRequestToken"
        /\ TokenState = "AccessTokenObtained"
        /\ Delivered(i)
        /\ calls'[i].resp.t = "tokens"
        /\ Populated(calls'[i].resp))
       => /\ requestToken' = requestToken
          /\ calls'[i].status = "rejected"]_vars

\* C17 as amended: a getRequestToken that completes with a token and a secret
\* while the state is AccessTokenObtained is accepted: it replaces the stored
\* request pair and resolves to it, and leaves the access pair and the state
\* AccessTokenObtained as they are.
C17_ReplacedAfterAccess ==
  [][\A i \in DOMAIN calls :
       (/\ calls[i].kind = "getRequestToken"
        /\ TokenState = "AccessTokenObtained"
        /\ Delivered(i)
        /\ calls'[i].resp.t = "tokens"
        /\ Populated(calls'[i].resp))
       => /\ requestToken' = Token(calls'[i].resp.token, calls'[i].resp.secret)
          /\ calls'[i].status = "resolved"
          /\ calls'[i].value = VToken(requestToken')
          /\ accessToken' = accessToken
          /\ TokenState' = "AccessTokenObtained"]_vars

C17_Witness ==
  /\ TokenState = "AccessTokenObtained"
  /\ accessToken = Token("T2", "S2")
  /\ requestToken = Token("T1", "S1")
  /\ \E i, j \in DOMAIN calls :
       /\ i < j
       /\ calls[i].kind = "getAccessToken"
       /\ calls[i].arg = TokenArgument(ExternalToken)
       /\ calls[i].status = "resolved"
       /\ calls[j].kind = "getRequestToken"
       /\ calls[j].status = "resolved"
       /\ calls[j].value = VToken(Token("T1", "S1"))
       /\ lastDelivered = j

\* C18: getAuthorizeUrl returns the fixed authorize-page URL with query
\* parameter oauth_token equal to the stored request token (the text undefined
\* when none is stored), and with oauth_callback equal to the query-encoded
\* callback URL if and only if a non-empty callback URL was given; it sends
\* nothing and changes no state.
Contains(str, sub) ==
  \E k \in 1..Len(str) :
    k + Len(sub) - 1 <= Len(str) /\ SubSeq(str, k, k + Len(sub) - 1) = sub

C18_AuthorizeUrl ==
  [][Invoked({"getAuthorizeUrl"})
       => LET c == calls'[Len(calls')]
              callbackUrl == c.arg.callbackUrl
          IN /\ c.status = "returned"
             /\ c.value.t = "string"
             /\ c.value.s =
                  "https://www.urban-rivals.com/api/auth/authorize.php?oauth_token="
                  \o requestToken.token
                  \o (IF callbackUrl = "https://cb/"
                      THEN "&oauth_callback=https%3A%2F%2Fcb%2F" ELSE "")
             /\ Contains(c.value.s, "&oauth_callback=") <=> callbackUrl # ""
             /\ SubSeq(calls', 1, Len(calls)) = calls
             /\ UNCHANGED <<requestToken, accessToken, sent, verifier, proxyTarget>>]_vars

C18_Witness ==
  /\ requestToken = Token("T1", "S1")
  /\ sent = <<Request(REQUEST_URL, Undef, Undef, Undef, NoBody)>>
  /\ \E i \in DOMAIN calls :
       /\ calls[i].kind = "getAuthorizeUrl"
       /\ calls[i].arg.callbackUrl = "https://cb/"
       /\ calls[i].value.s =
            "https://www.urban-rivals.com/api/auth/authorize.php?oauth_token=T1&oauth_callback=https%3A%2F%2Fcb%2F"

\* C19: proxyClient.g.m(params, filters) sends the same request and yields the
\* same outcome as query("g.m", params, filters), and the proxy holds no state
\* of its own: writes to it are refused.
DottedName(origin) ==
  IF origin.callGroup = "urc" /\ origin.callName = "getCharacters" THEN "urc.getCharacters"
  ELSE IF origin.callGroup = "urc" /\ origin.callName = "getClans" THEN "urc.getClans"
  ELSE "other"

C19_ProxyIsQuery ==
  /\ proxyTarget = {}
  /\ \A p, q \in DOMAIN calls :
       (/\ calls[p].kind = "proxyClient"
        /\ calls[q].kind = "query"
        /\ calls[q].arg.call = DottedName(calls[p].arg.origin))
       => /\ calls[p].req.url = calls[q].req.url
          /\ calls[p].req.body = calls[q].req.body
          /\ calls[p].req.verifier = calls[q].req.verifier
          /\ (calls[p].resp = calls[q].resp /\ calls[p].resp # NoResponse)
               => /\ calls[p].status = calls[q].status
                  /\ calls[p].value = calls[q].value

C19_Witness ==
  \E p, q \in DOMAIN calls :
    /\ calls[p].kind = "proxyClient"
    /\ calls[p].arg.origin.callName = "getClans"
    /\ calls[q].kind = "query"
    /\ calls[q].arg.call = "urc.getClans"
    /\ calls[p].req = calls[q].req
    /\ calls[p].resp = BodyResponse(ServerReply(calls[p].req.body))
    /\ calls[q].resp = calls[p].resp
    /\ calls[p].status = "resolved"
    /\ calls[p].value = [t |-> "QueryResult", r |-> "clans"]
    /\ calls[q].value = calls[p].value

\* C20: each multipleQueries call sends exactly one request, to the API URL,
\* whose body has the single field request: a JSON array with one element per
\* query in the order given, each element with exactly the fields call, params,
\* contextFilter and itemsFilter, where an omitted params is {} and an omitted
\* filter is [].
C20_BatchEncoding ==
  [][Invoked({"multipleQueries"})
       => LET queries == calls'[Len(calls')].arg.queries
              r == sent'[Len(sent')]
          IN /\ Len(sent') = Len(sent) + 1
             /\ SubSeq(sent', 1, Len(sent)) = sent
             /\ r = calls'[Len(calls')].req
             /\ r.url = "https://www.urban-rivals.com/api"
             /\ DOMAIN r.body = {"request"}
             /\ r.body.request.wf
             /\ r.body.request.doc.t = "array"
             /\ Len(r.body.request.doc.elems) = Len(queries)
             /\ \A k \in DOMAIN queries :
                  LET e == r.body.request.doc.elems[k] IN
                  /\ DOMAIN e = {"call", "params", "contextFilter", "itemsFilter"}
                  /\ e.call = queries[k].call
                  /\ e.params = (IF queries[k].params = Undef THEN "{}" ELSE queries[k].params)
                  /\ e.contextFilter =
                       (IF queries[k].contextFilter = Undef THEN "[]"
                        ELSE queries[k].contextFilter)
                  /\ e.itemsFilter =
                       (IF queries[k].itemsFilter = Undef THEN "[]"
                        ELSE queries[k].itemsFilter)]_vars

C20_Witness ==
  \E k \in DOMAIN sent :
    /\ sent[k].url = API_URL
    /\ sent[k].body.request.doc.elems =
         <<[call |-> "urc.getClans", params |-> "{characterID:223}",
            contextFilter |-> "[name]", itemsFilter |-> "[]"],
           [call |-> "urc.getCharacters", params |-> "{}",
            contextFilter |-> "[]", itemsFilter |-> "[]"]>>

\* C21: no operation retries. The requests handed to the transport are, in
\* order, exactly one per call of getRequestToken, getAccessToken,
\* multipleQueries (and query, which makes one multipleQueries call): a call
\* sends one request when it is invoked and none when its callback runs,
\* whether the callback reports a failure or not.
Sends(c) == c.kind # "getAuthorizeUrl"

C21_OneRequestPerCall ==
  LET senders == SelectSeq(calls, Sends)
  IN sent = [k \in 1..Len(senders) |-> senders[k].req]

C21_Witness ==
  /\ Len(calls) = 2
  /\ calls[1].kind = "multipleQueries"
  /\ calls[1].status = "rejected"
  /\ calls[1].resp = ErrorResponse
  /\ calls[2].kind = "getRequestToken"
  /\ calls[2].status = "rejected"
  /\ calls[2].resp = ErrorResponse
  /\ lastDelivered = 2
  /\ sent = <<calls[1].req, calls[2].req>>

\* C22: with an access pair stored, multipleQueries calls in flight together do
\* not disturb each other: the stored pairs stay as they are, each call is
\* signed with the stored access pair and carries its own batch, and each
\* promise settles with the response to its own request: rejected with the
\* transport's error, or resolved with the document of the body. Stated for
\* calls with a batch that is not empty whose responses arrived in the reverse
\* of the order the calls were made in, so that the first was in flight for the
\* whole of the second.
InFlightTogether(i, j) ==
  /\ i < j
  /\ calls[i].kind = "multipleQueries"
  /\ calls[j].kind = "multipleQueries"
  /\ calls[i].arg.queries # <<>>
  /\ calls[j].arg.queries # <<>>
  /\ calls[j].resp # NoResponse
  /\ lastDelivered = i

SettledByOwnResponse(i) ==
  /\ calls[i].status \in {"resolved", "rejected"}
  /\ calls[i].resp = ErrorResponse
       => calls[i].status = "rejected" /\ calls[i].value = TransportError
  /\ calls[i].resp.t = "body"
       => calls[i].status = "resolved" /\ calls[i].value = calls[i].resp.doc

C22_ConcurrentQueries ==
  TokenState = "AccessTokenObtained"
    => \A i, j \in DOMAIN calls :
         InFlightTogether(i, j)
           => /\ requestToken = Token("T1", "S1")
              /\ accessToken = Token("T2", "S2")
              /\ \A k \in {i, j} :
                   /\ calls[k].req.token = accessToken.token
                   /\ calls[k].req.secret = accessToken.secret
                   /\ calls[k].req.body.request = JSONstringify(queriesToDo(calls[k].arg.queries))
                   /\ SettledByOwnResponse(k)

\* C23: a repeated getRequestToken overwrites the stored request pair. When two
\* getRequestToken calls, made one after the other or overlapping, have each
\* been answered with a token and a secret, and call j's answer arrived last,
\* the stored request pair is the pair of j's answer, each promise is resolved
\* to the pair of its own answer, and the state is RequestTokenObtained (as
\* long as no access pair is stored).
Succeeded(i) ==
  /\ calls[i].kind = "getRequestToken"
  /\ calls[i].resp.t = "tokens"
  /\ Populated(calls[i].resp)

PairOf(arg) ==
  IF arg.t = "Token" THEN Token(arg.token, arg.secret)
  ELSE IF arg.t = "holder" THEN arg.requestToken
  ELSE requestToken

C24_ExchangeFixedAtCall ==
  [][/\ Invoked({"getAccessToken"})
          => LET c == calls'[Len(calls')]
             IN /\ c.req.token = PairOf(c.arg).token
                /\ c.req.secret = PairOf(c.arg).secret
                /\ sent' = Append(sent, c.req)
     /\ \A i \in DOMAIN calls :
          /\ calls'[i].req = calls[i].req
          /\ calls'[i].arg = calls[i].arg
     /\ SubSeq(sent', 1, Len(sent)) = sent
     /\ \A j \in DOMAIN calls :
          (/\ calls[j].kind = "getRequestToken"
           /\ Delivered(j)
           /\ calls'[j].resp.t = "tokens")
          => /\ requestToken' = Token(calls'[j].resp.token, calls'[j].resp.secret)
             /\ accessToken' = accessToken
     /\ \A i \in DOMAIN calls :
          (/\ calls[i].kind = "getAccessToken"
           /\ Delivered(i)
           /\ calls'[i].resp.t = "tokens")
          => /\ accessToken' = Token(calls'[i].resp.token, calls'[i].resp.secret)
             /\ requestToken' = requestToken]_vars

\* The exchange of T1/S1 is in flight when a second getRequestToken is made
\* and answered T2/S2; the exchange is answered after that: the access pair
\* stored comes from T1/S1, the request pair stored is T2/S2.
C24_Witness ==
  \E i, j \in DOMAIN calls :
    /\ i < j
    /\ calls[i].kind = "getAccessToken"
    /\ calls[i].arg = NoArgument
    /\ calls[i].req.token = "T1"
    /\ calls[i].req.secret = "S1"
    /\ calls[i].resp = TokenResponse(Token("T1", "S1"))
    /\ calls[j].kind = "getRequestToken"
    /\ calls[j].resp = TokenResponse(Token("T2", "S2"))
    /\ lastDelivered = i
    /\ requestToken = Token("T2", "S2")
    /\ accessToken = Token("T1", "S1")

====
